---- MODULE Spec2Model ----
(***************************************************************************)
(* A model of scrapix's GoogleImageScraper (src/scrapix/scraper.py) and of *)
(* the ImageUrl store (src/scrapix/urls.py).                               *)
(*                                                                         *)
(* One scraper instance at a time works on one save directory.  The        *)
(* browser page is the environment: every query, click, scroll and HTTP    *)
(* fetch is answered nondeterministically.  Strings are sequences of       *)
(* one-character strings so that the substring tests of the code are       *)
(* computed, not assumed.                                                  *)
(***************************************************************************)
EXTENDS Integers, Sequences, FiniteSets, TLC

(* ------------------------------ bounds -------------------------------- *)
MaxLimit == 2
MaxSkip == 2
MaxThumbs == 3
MaxDim == 3
MaxBatch == 3
MaxImgs == 2
MaxCalls == 2
MaxClicks == 2

(* ------------------------------ strings ------------------------------- *)
\* Python None, where the other values are character sequences.
NoneStr == <<"None">>
\* Python None, where the other values are (width, height) pairs.
NoneRes == <<>>

LowerChar(c) ==
  CASE c = "T" -> "t"
    [] c = "O" -> "o"
    [] c = "Y" -> "y"
    [] c = "D" -> "d"
    [] OTHER -> c

\* str.lower(), leaving the case as it is
lower_as_is(s) == s

\* str.lower()
lower(s) == [i \in 1..Len(s) |-> LowerChar(s[i])]

\* Python's `sub in s` on strings
contains(sub, s) ==
  \E i \in 0..(Len(s) - Len(sub)) : SubSeq(s, i + 1, i + Len(sub)) = sub

HTTP == <<"h", "t", "t", "p">>
ENCRYPTED == <<"e", "n", "c", "r", "y", "p", "t", "e", "d">>

url_a == HTTP \o <<"/", "a">>
url_b == HTTP \o <<"/", "b">>
url_c == HTTP \o <<"/", "c">>
url_enc == HTTP \o <<"/">> \o ENCRYPTED
url_data == <<"d", "a", "t", "a">>
url_toy == HTTP \o <<"/", "T", "o", "y">>

t_duck == <<"d", "u", "c", "k">>
t_toy == <<"D", "u", "c", "k", " ", "T", "o", "y">>
kw_toy == <<"t", "O", "Y">>
kw_cat == <<"c", "a", "t">>
url_query == HTTP \o <<"/", "a", "?", "v">>
url_quoted == HTTP \o <<"/", "b", "%", "2", "0", "c", "/">>

\* The keyword lists a caller passes.
KeywordLists == { <<>>, << <<"t", "O", "Y">> >> }

\* The (min_res, max_res) pairs a caller passes, and the sizes an image can have.
Resolutions == { <<NoneRes, NoneRes>>, << <<2, 2>>, <<3, 3>> >> }
ImageSizes == { NoneRes, <<1, 1>>, <<2, 2>>, <<4, 4>>, <<1, 3>> }

(* ------------------------------ ImageUrl ------------------------------ *)
ImageUrl(title, url) == [title |-> title, url |-> url]

\* The <img> elements the side panel can show after a click.
Elements ==
  { [src |-> url_a, alt |-> t_duck],
    [src |-> url_b, alt |-> t_duck],
    [src |-> url_c, alt |-> t_toy],
    [src |-> url_toy, alt |-> t_duck],
    [src |-> url_enc, alt |-> t_duck],
    [src |-> url_data, alt |-> t_duck],
    [src |-> url_b, alt |-> NoneStr],
    [src |-> NoneStr, alt |-> t_duck] }

\* tab.find(..., raise_exc=False, find_all=False) found nothing.
NoElement == [src |-> NoneStr, alt |-> <<"absent">>]

\* The ordered marker classes of the enlarged image (settings.IMAGE_CLASSES):
\* an ordered list, here of two classes.
IMAGE_CLASSES == <<"n3VNCb", "iPVvYb">>

\* What the side panel holds: per marker class, the first <img> or nothing.
Panels == [1..Len(IMAGE_CLASSES) -> Elements \cup {NoElement}]

\* What requests.get + Image.open give for an image url.
Fetches ==
  [status : {"ok"}, size : ImageSizes]
    \cup [status : {"HTTPError", "UnidentifiedImageError"}, size : {NoneRes}]

\* check_dimensions, with bounds that exclude their own value
check_dimensions_exclusive(fetch, min_resolution, max_resolution) ==
  IF fetch.status # "ok" THEN fetch.status
  ELSE IF fetch.size = NoneRes THEN "True"
  ELSE IF min_resolution # NoneRes
          /\ (min_resolution[1] >= fetch.size[1] \/ min_resolution[2] >= fetch.size[2])
       THEN "False"
  ELSE IF max_resolution # NoneRes
          /\ (max_resolution[1] <= fetch.size[1] \/ max_resolution[2] <= fetch.size[2])
       THEN "False"
  ELSE "True"

\* ImageUrl.check_dimensions: "True", "False", or the exception that escapes.
check_dimensions(fetch, min_resolution, max_resolution) ==
  IF fetch.status # "ok" THEN fetch.status
  ELSE IF fetch.size = NoneRes THEN "True"
  ELSE IF min_resolution # NoneRes
          /\ (min_resolution[1] > fetch.size[1] \/ min_resolution[2] > fetch.size[2])
       THEN "False"
  ELSE IF max_resolution # NoneRes
          /\ (max_resolution[1] < fetch.size[1] \/ max_resolution[2] < fetch.size[2])
       THEN "False"
  ELSE "True"

\* The index of the first character of s that is in cs, Len(s) + 1 if none.
FirstOf(s, cs) ==
  IF \E i \in 1..Len(s) : s[i] \in cs
  THEN CHOOSE i \in 1..Len(s) : s[i] \in cs /\ \A j \in 1..(i - 1) : s[j] \notin cs
  ELSE Len(s) + 1

\* urlparse(url).path: what comes before the query and the fragment.
url_path(s) == SubSeq(s, 1, FirstOf(s, {"?", "#"}) - 1)

\* Path(path).name: the last component, trailing slashes apart.
RECURSIVE path_name(_)
path_name(p) ==
  IF p = <<>> THEN <<>>
  ELSE IF p[Len(p)] = "/" THEN path_name(SubSeq(p, 1, Len(p) - 1))
  ELSE IF \E i \in 1..Len(p) : p[i] = "/"
       THEN LET last == CHOOSE i \in 1..Len(p) :
                          p[i] = "/" /\ \A j \in (i + 1)..Len(p) : p[j] # "/"
            IN SubSeq(p, last + 1, Len(p))
  ELSE p

\* urllib.parse.unquote, for the escape %20
RECURSIVE unquote(_)
unquote(s) ==
  IF s = <<>> THEN <<>>
  ELSE IF Len(s) >= 3 /\ SubSeq(s, 1, 3) = <<"%", "2", "0">>
       THEN <<" ">> \o unquote(SubSeq(s, 4, Len(s)))
  ELSE <<s[1]>> \o unquote(Tail(s))

\* ImageUrl.filename
filename(u) == unquote(path_name(url_path(u.url)))

(* ------------------------------ the store ----------------------------- *)
\* The order in which a Python set is iterated: some fixed order.
RECURSIVE SetToSeq(_)
SetToSeq(S) ==
  IF S = {} THEN <<>>
  ELSE LET x == CHOOSE y \in S : TRUE IN <<x>> \o SetToSeq(S \ {x})

\* dataclasses.asdict + json.dump: None is written as null.
asdict(u) ==
  [title |-> IF u.title = NoneStr THEN <<"null">> ELSE u.title, url |-> u.url]

\* from_dict, reading null as the title "null"
from_dict_null_title(d) == ImageUrl(d.title, d.url)

\* json.load + ImageUrl.from_dict: null is read as None.
from_dict(d) ==
  ImageUrl(IF d.title = <<"null">> THEN NoneStr ELSE d.title, d.url)

\* write_urls: the records of the set, as a JSON array.
write_urls(urls) ==
  LET s == SetToSeq(urls) IN [i \in 1..Len(s) |-> asdict(s[i])]

\* read_urls: the set of the records of the JSON array.
read_urls(data) == { from_dict(data[i]) : i \in 1..Len(data) }

\* The store file of the save directory: absent, or a JSON array of records.
NoFile == [exists |-> FALSE, data |-> <<>>]
FileSet(f) == IF f.exists THEN read_urls(f.data) ELSE {}

\* _load_urls, reading the file whatever `force`
load_urls_ignoring_force(f, force_flag) ==
  IF f.exists THEN read_urls(f.data) ELSE {}

\* GoogleImageScraper._load_urls
load_urls(f, force_flag) ==
  IF f.exists /\ ~force_flag THEN read_urls(f.data) ELSE {}

\* GoogleImageScraper._save_urls
save_urls(urls) == [exists |-> TRUE, data |-> write_urls(urls)]

\* The store files a save directory holds when a scraper is constructed on it:
\* none, or what an earlier session saved.
InitialFiles ==
  { NoFile,
    save_urls({ImageUrl(t_duck, url_a)}),
    save_urls({ImageUrl(t_duck, url_a), ImageUrl(t_toy, url_c)}) }

(* ------------------------------ validator ----------------------------- *)
\* validate_image_url without the test `url in self.urls`
validate_image_url_no_dedup(url, self_urls, keywords, min_res, max_res, fetch) ==
  IF url.title = NoneStr \/ url.url = NoneStr THEN "False"
  ELSE IF \E i \in 1..Len(keywords) :
            \/ contains(lower(keywords[i]), lower(url.url))
            \/ contains(lower(keywords[i]), lower(url.title))
       THEN "False"
  ELSE IF min_res # NoneRes \/ max_res # NoneRes
       THEN check_dimensions(fetch, min_res, max_res)
  ELSE "True"

\* the validator, looking for the keywords in the title only
validate_image_url_title_only(url, self_urls, keywords, min_res, max_res, fetch) ==
  IF url.title = NoneStr \/ url.url = NoneStr \/ url \in self_urls THEN "False"
  ELSE IF \E i \in 1..Len(keywords) :
            contains(lower(keywords[i]), lower(url.title))
       THEN "False"
  ELSE IF min_res # NoneRes \/ max_res # NoneRes
       THEN check_dimensions(fetch, min_res, max_res)
  ELSE "True"

\* GoogleImageScraper._validate_image_url: "True", "False", or the exception
\* that escapes from check_dimensions.
validate_image_url(url, self_urls, keywords, min_res, max_res, fetch) ==
  IF url.title = NoneStr \/ url.url = NoneStr \/ url \in self_urls THEN "False"
  ELSE IF \E i \in 1..Len(keywords) :
            \/ contains(lower(keywords[i]), lower(url.url))
            \/ contains(lower(keywords[i]), lower(url.title))
       THEN "False"
  ELSE IF min_res # NoneRes \/ max_res # NoneRes
       THEN check_dimensions(fetch, min_res, max_res)
  ELSE "True"

\* One <img> of the side panel is a valid source image.
ValidImage(image) ==
  /\ image # NoElement
  /\ image.src # NoneStr
  /\ contains(HTTP, image.src)
  /\ ~contains(ENCRYPTED, image.src)

\* GoogleImageScraper._extract_image_url: <<>> is None, <<u>> is the ImageUrl u.
extract_image_url(panel) ==
  IF \E i \in 1..Len(IMAGE_CLASSES) : ValidImage(panel[i])
  THEN LET i == CHOOSE j \in 1..Len(IMAGE_CLASSES) :
                  /\ ValidImage(panel[j])
                  /\ \A k \in 1..(j - 1) : ~ValidImage(panel[k])
       IN << ImageUrl(panel[i].alt, panel[i].src) >>
  ELSE <<>>

\* What _extract_image_url can return, over all the side panels.
Extractions == { extract_image_url(panel) : panel \in Panels }

(* ------------------------------ harvest ------------------------------- *)
\* the break test, one result early
LimitReached_early(urls, limit) == Cardinality(urls) + 1 >= limit

\* the break test, with > for >=
LimitReached_off_by_one(urls, limit) == Cardinality(urls) > limit

\* `if len(urls) >= limit: break`
LimitReached(urls, limit) == Cardinality(urls) >= limit

\* the loop test, without the limit
LoopCondition_ignoring_limit(urls, limit, new_results) == new_results

\* the loop test of _gather_urls
LoopCondition(urls, limit, new_results) == Cardinality(urls) < limit /\ new_results

\* the slice start, forgetting skip
SliceStart_no_skip(seen_thumbnails, skip) == seen_thumbnails

\* `thumbnails[max(seen_thumbnails, skip):]`
SliceStart(seen_thumbnails, skip) ==
  IF seen_thumbnails >= skip THEN seen_thumbnails ELSE skip

\* `skip > 0 and skip > len(thumbnails)`
SkipAhead(skip, n) == skip > 0 /\ skip > n

\* the merge, as an assignment
Merge_overwrite(self_urls, urls) == urls

\* `self.urls |= urls`
Merge(self_urls, urls) == self_urls \cup urls

Positions == 0..(MaxThumbs - 1)

VARIABLES
  file,             \* the store file of the save directory
  self_urls,        \* self.urls
  force,            \* self.force
  pc,               \* where the scraper is
  limit, skip, keywords, min_res, max_res,   \* the arguments of the call
  urls,             \* _gather_urls: the accumulated set
  seen_thumbnails,  \* _gather_urls: seen_thumbnails
  new_results,      \* _gather_urls: new_results
  thumbnails,       \* _gather_urls: len(thumbnails) of the last query
  idx,              \* _scroll_through_thumbnails: position of the loop in thumbnails
  url,              \* _scroll_through_thumbnails: the last extraction (<<>> is None)
  clicked,          \* per list position, how many clicks were attempted in this call
  queries,          \* how many thumbnail queries this call issued
  error,            \* the exception caught by get_image_urls, "none" if none
  raised,           \* the exception the caller received, "none" if none
  saved,            \* the call wrote the store file
  fileBefore,       \* the records of the store file when the call started
  has_recaptcha,    \* _check_recaptcha: the challenge marker was found
  reject_btn,       \* _refuse_cookies: the button was found (and clicked)
  images_link,      \* _click_images_search: the link was found (and clicked)
  fetch,            \* what requests.get + Image.open gave for the image checked
  result,           \* what the function applied last returned
  dl_urls,          \* download_urls: the ImageUrls, in the order of the iteration
  dl_i,             \* download_urls: how many of them `download` was called on
  dl_force,         \* download_urls: force
  disk,             \* the save directory: per file name, the content (<<>> if absent)
  requested,        \* the urls requests.get was called on
  given_file,       \* the `download` command: the file at the path given as --urls
  returned,         \* a sequence of calls on one instance: the sets they returned
  panel             \* the side panel: per marker class, its <img> elements in order

vars ==
  << file, self_urls, force, pc, limit, skip, keywords, min_res,
     max_res, urls, seen_thumbnails, new_results, thumbnails, idx, url, clicked,
     queries, error, raised, saved, fileBefore, has_recaptcha, reject_btn,
     images_link, fetch, result, dl_urls, dl_i, dl_force, disk, requested,
     given_file, returned, panel >>

storeVars == << file, self_urls, force >>
paramVars == << limit, skip, keywords, min_res, max_res >>
loopVars == << urls, seen_thumbnails, new_results, thumbnails, idx, url, clicked, queries >>
endVars == << error, raised, saved, fileBefore >>
stepVars == << has_recaptcha, reject_btn, images_link >>
\* The variables of the function applications, which no session step touches.
pureVars == << fetch, result, panel >>
dlVars == << dl_urls, dl_i, dl_force, disk, requested, given_file >>
histVars == << returned >>
restVars == << pureVars, dlVars, histVars >>

\* No image was fetched, nothing was returned.
NoFetch == [status |-> "ok", size |-> NoneRes]
NoResult == <<"none">>
NoPanel == [i \in 1..Len(IMAGE_CLASSES) |-> <<>>]

\* The ImageUrls a batch is made of, and the names of their files.
Downloads ==
  { ImageUrl(t_duck, url_a),
    ImageUrl(t_toy, url_c),
    ImageUrl(NoneStr, url_query),
    ImageUrl(t_duck, url_quoted) }
FileNames == { filename(u) : u \in Downloads }

\* No download is running, the save directory holds no image.
NoDownload ==
  /\ dl_urls = <<>>
  /\ dl_i = 0
  /\ dl_force = FALSE
  /\ disk = [n \in FileNames |-> <<>>]
  /\ requested = {}
  /\ given_file = NoFile

Init ==
  /\ file \in InitialFiles
  /\ self_urls = {}
  /\ force = FALSE
  /\ pc = "new"
  /\ limit = 1
  /\ skip = 0
  /\ keywords = <<>>
  /\ min_res = NoneRes
  /\ max_res = NoneRes
  /\ urls = {}
  /\ seen_thumbnails = 0
  /\ new_results = TRUE
  /\ thumbnails = 0
  /\ idx = 0
  /\ url = <<>>
  /\ clicked = [p \in Positions |-> 0]
  /\ queries = 0
  /\ error = "none"
  /\ raised = "none"
  /\ saved = FALSE
  /\ fileBefore = {}
  /\ has_recaptcha = FALSE
  /\ reject_btn = FALSE
  /\ images_link = FALSE
  /\ fetch = NoFetch
  /\ result = NoResult
  /\ panel = NoPanel
  /\ returned = <<>>
  /\ NoDownload

\* GoogleImageScraper.__init__: a new instance on the save directory.
Construct ==
  /\ pc = "new"
  /\ \E f \in BOOLEAN :
       /\ force' = f
       /\ self_urls' = load_urls(file, f)
  /\ pc' = "idle"
  /\ UNCHANGED << file, paramVars, loopVars, endVars, stepVars, restVars >>

\* What a call of get_image_urls starts from.
CallStarts ==
  /\ pc = "idle"
  /\ \E l \in 1..MaxLimit, s \in 0..MaxSkip, k \in KeywordLists, r \in Resolutions :
       /\ limit' = l
       /\ skip' = s
       /\ keywords' = k
       /\ min_res' = r[1]
       /\ max_res' = r[2]
  /\ fileBefore' = FileSet(file)
  /\ UNCHANGED << storeVars, loopVars, error, saved, stepVars, restVars >>

\* get_image_urls up to tab.go_to, which succeeds.
Navigate ==
  /\ CallStarts
  /\ raised' = "none"
  /\ pc' = "navigated"

\* get_image_urls up to tab.go_to, which raises: nothing catches it.
NavigateFails ==
  /\ CallStarts
  /\ raised' = "NavigationError"
  /\ pc' = "done"

\* _check_recaptcha, going on when the marker is found
CheckRecaptcha_ignored ==
  /\ pc = "navigated"
  /\ \E found \in BOOLEAN : has_recaptcha' = found
  /\ pc' = "checked"
  /\ UNCHANGED << storeVars, paramVars, loopVars, endVars, reject_btn,
                  images_link, restVars >>

\* _check_recaptcha
CheckRecaptcha ==
  /\ pc = "navigated"
  /\ \E found \in BOOLEAN :
       /\ has_recaptcha' = found
       /\ IF found
          THEN error' = "RuntimeError" /\ pc' = "except"
          ELSE error' = error /\ pc' = "checked"
  /\ UNCHANGED << storeVars, paramVars, loopVars, raised, saved, fileBefore,
                  reject_btn, images_link, restVars >>

\* _refuse_cookies, raising when the button is not found
RefuseCookies_required ==
  /\ pc = "checked"
  /\ \E found \in BOOLEAN :
       /\ reject_btn' = found
       /\ IF found
          THEN error' = error /\ pc' = "consent"
          ELSE error' = "ElementNotFound" /\ pc' = "except"
  /\ UNCHANGED << storeVars, paramVars, loopVars, raised, saved, fileBefore,
                  has_recaptcha, images_link, restVars >>

\* _refuse_cookies: the button is clicked if it is found.
RefuseCookies ==
  /\ pc = "checked"
  /\ \E found \in BOOLEAN : reject_btn' = found
  /\ pc' = "consent"
  /\ UNCHANGED << storeVars, paramVars, loopVars, endVars, has_recaptcha,
                  images_link, restVars >>

\* _click_images_search, going on when the link is not found
ClickImagesSearch_optional ==
  /\ pc = "consent"
  /\ \E found \in BOOLEAN : images_link' = found
  /\ pc' = "gather"
  /\ UNCHANGED << storeVars, paramVars, loopVars, endVars, has_recaptcha,
                  reject_btn, restVars >>

\* _click_images_search
ClickImagesSearch ==
  /\ pc = "consent"
  /\ \E found \in BOOLEAN :
       /\ images_link' = found
       /\ IF found
          THEN error' = error /\ pc' = "gather"
          ELSE error' = "ElementNotFound" /\ pc' = "except"
  /\ UNCHANGED << storeVars, paramVars, loopVars, raised, saved, fileBefore,
                  has_recaptcha, reject_btn, restVars >>

\* The exception of get_image_urls' try block is caught.
Raise(e) ==
  /\ error' = e
  /\ pc' = "except"

\* _gather_urls, one pass up to the slice: the thumbnails are queried, and the
\* skip prefix is loaded by scrolling to the last one.
FindThumbnailsSkipAhead ==
  /\ pc = "gather"
  /\ LoopCondition(urls, limit, new_results)
  /\ \E n \in 0..MaxThumbs :
       /\ SkipAhead(skip, n)
       /\ thumbnails' = n
       /\ new_results' = (n - seen_thumbnails > 0)
       /\ IF n = 0
          THEN \* thumbnails[-1] of an empty list
               /\ Raise("IndexError")
               /\ UNCHANGED seen_thumbnails
          ELSE \E scrolled \in BOOLEAN :
                 IF scrolled
                 THEN /\ seen_thumbnails' = n
                      /\ pc' = "gather"
                      /\ UNCHANGED error
                 ELSE /\ Raise("ScrollError")
                      /\ UNCHANGED seen_thumbnails
  /\ queries' = queries + 1
  /\ UNCHANGED << storeVars, paramVars, urls, idx, url, clicked, raised,
                  saved, fileBefore, stepVars, restVars >>

\* _gather_urls, one pass up to the first click: the thumbnails are queried and
\* sliced, and the first one of the slice is scrolled into view.
FindThumbnails ==
  /\ pc = "gather"
  /\ LoopCondition(urls, limit, new_results)
  /\ \E n \in 0..MaxThumbs :
       /\ ~SkipAhead(skip, n)
       /\ thumbnails' = n
       /\ new_results' = (n - seen_thumbnails > 0)
       /\ idx' = SliceStart(seen_thumbnails, skip)
       /\ IF SliceStart(seen_thumbnails, skip) < n
          THEN \E scrolled \in BOOLEAN :
                 IF scrolled
                 THEN pc' = "scroll" /\ UNCHANGED error
                 ELSE Raise("ScrollError")
          ELSE pc' = "endpass" /\ UNCHANGED error
  /\ queries' = queries + 1
  /\ UNCHANGED << storeVars, paramVars, urls, seen_thumbnails, url, clicked,
                  raised, saved, fileBefore, stepVars, restVars >>

\* the for loop, passing over one thumbnail
NextThumbnail_skipping_one ==
  /\ idx' = idx + 2
  /\ pc' = IF idx + 2 < thumbnails THEN "scroll" ELSE "endpass"

\* The for loop of _scroll_through_thumbnails goes on to the next thumbnail.
NextThumbnail ==
  /\ idx' = idx + 1
  /\ pc' = IF idx + 1 < thumbnails THEN "scroll" ELSE "endpass"

\* _scroll_through_thumbnails, one iteration whose click raises: `continue`.
ClickFails ==
  /\ pc = "scroll"
  /\ idx < thumbnails
  /\ clicked' = [clicked EXCEPT ![idx] = @ + 1]
  /\ NextThumbnail
  /\ UNCHANGED << storeVars, paramVars, urls, seen_thumbnails, new_results,
                  thumbnails, url, queries, endVars, stepVars, restVars >>

\* The dimensions are fetched only when validation gets as far as rule 4.
FetchesFor(found) ==
  IF found # <<>>
     /\ validate_image_url(found[1], self_urls, keywords, NoneRes, NoneRes,
                           NoFetch) = "True"
     /\ (min_res # NoneRes \/ max_res # NoneRes)
  THEN Fetches
  ELSE {NoFetch}

\* _scroll_through_thumbnails, one iteration: click, extract, validate, add.
ClickThumbnail ==
  /\ pc = "scroll"
  /\ idx < thumbnails
  /\ clicked' = [clicked EXCEPT ![idx] = @ + 1]
  /\ \E found \in Extractions :
       \E fetched \in FetchesFor(found) :
         LET valid == IF found = <<>> THEN "False"
                      ELSE validate_image_url(found[1], self_urls, keywords,
                                              min_res, max_res, fetched)
         IN /\ url' = found
            /\ CASE valid = "False" ->
                      /\ NextThumbnail
                      /\ UNCHANGED << urls, error >>
                 [] valid = "True" ->
                      /\ urls' = urls \cup {found[1]}
                      /\ IF LimitReached(urls \cup {found[1]}, limit)
                         THEN pc' = "endpass" /\ UNCHANGED idx
                         ELSE NextThumbnail
                      /\ UNCHANGED error
                 [] OTHER ->
                      /\ Raise(valid)
                      /\ UNCHANGED << urls, idx >>
  /\ UNCHANGED << storeVars, paramVars, seen_thumbnails, new_results,
                  thumbnails, queries, raised, saved, fileBefore, stepVars,
                  restVars >>

\* the end of a pass, seen_thumbnails left as it was
EndPass_forgetting ==
  /\ pc = "endpass"
  /\ url' = <<>>
  /\ pc' = "gather"
  /\ UNCHANGED << storeVars, paramVars, urls, seen_thumbnails, new_results,
                  thumbnails, idx, clicked, queries, endVars, stepVars,
                  restVars >>

\* _gather_urls, the end of a pass: `seen_thumbnails = len(thumbnails)`.
EndPass ==
  /\ pc = "endpass"
  /\ seen_thumbnails' = thumbnails
  /\ url' = <<>>
  /\ pc' = "gather"
  /\ UNCHANGED << storeVars, paramVars, urls, new_results, thumbnails, idx,
                  clicked, queries, endVars, stepVars, restVars >>

\* the return of _gather_urls, the save keeping the records of the file
ReturnUrls_merging_file ==
  /\ pc = "gather"
  /\ ~LoopCondition(urls, limit, new_results)
  /\ self_urls' = Merge(self_urls, urls)
  /\ file' = save_urls(Merge(self_urls, urls) \cup FileSet(file))
  /\ saved' = TRUE
  /\ pc' = "logpage"
  /\ UNCHANGED << force, paramVars, loopVars, error, raised, fileBefore,
                  stepVars, restVars >>

\* _gather_urls returns; get_image_urls merges and saves.
ReturnUrls ==
  /\ pc = "gather"
  /\ ~LoopCondition(urls, limit, new_results)
  /\ self_urls' = Merge(self_urls, urls)
  /\ file' = save_urls(Merge(self_urls, urls))
  /\ saved' = TRUE
  /\ pc' = "logpage"
  /\ UNCHANGED << force, paramVars, loopVars, error, raised, fileBefore,
                  stepVars, restVars >>

\* _log_page after the save; what it raises is caught like any exception.
LogPage ==
  /\ pc = "logpage"
  /\ \E logged \in BOOLEAN :
       IF logged
       THEN pc' = "done" /\ UNCHANGED error
       ELSE Raise("LogPageError")
  /\ UNCHANGED << storeVars, paramVars, loopVars, raised, saved, fileBefore,
                  stepVars, restVars >>

\* the except block, starting over after the navigation instead of raising
HandleException_retrying ==
  /\ pc = "except"
  /\ pc' = "navigated"
  /\ UNCHANGED << storeVars, paramVars, loopVars, endVars, stepVars, restVars >>

\* the except block, saving what harvest had accepted before raising
HandleException_saving ==
  /\ pc = "except"
  /\ \E logged \in BOOLEAN :
       raised' = IF logged THEN error ELSE "LogPageError"
  /\ file' = save_urls(Merge(self_urls, urls))
  /\ pc' = "done"
  /\ UNCHANGED << self_urls, force, paramVars, loopVars, error, saved,
                  fileBefore, stepVars, restVars >>

\* The except block of get_image_urls: _log_page, then `raise e`.
HandleException ==
  /\ pc = "except"
  /\ \E logged \in BOOLEAN :
       raised' = IF logged THEN error ELSE "LogPageError"
  /\ pc' = "done"
  /\ UNCHANGED << storeVars, paramVars, loopVars, error, saved, fileBefore,
                  stepVars, restVars >>

Next ==
  \/ Construct
  \/ Navigate
  \/ NavigateFails
  \/ CheckRecaptcha
  \/ RefuseCookies
  \/ ClickImagesSearch
  \/ FindThumbnailsSkipAhead
  \/ FindThumbnails
  \/ ClickFails
  \/ ClickThumbnail
  \/ EndPass
  \/ ReturnUrls
  \/ LogPage
  \/ HandleException

Spec == Init /\ [][Next]_vars

(* ---------------------- the functions, on their own -------------------- *)
\* The image sizes and resolution bounds the functions are applied to.
Dims == (1..MaxDim) \X (1..MaxDim)
Bounds == {NoneRes} \cup Dims
FunctionFetches ==
  [status : {"ok"}, size : Bounds]
    \cup [status : {"HTTPError", "UnidentifiedImageError"}, size : {NoneRes}]

\* The ImageUrls the functions are applied to.
Candidates ==
  { ImageUrl(t_duck, url_a),
    ImageUrl(t_toy, url_c),
    ImageUrl(t_duck, url_toy),
    ImageUrl(NoneStr, url_toy),
    ImageUrl(NoneStr, url_b) }
FunctionKeywordLists == { <<>>, <<kw_toy>>, <<kw_cat, kw_toy>>, <<kw_cat>> }

\* No session is running.
NoSession ==
  /\ force = FALSE
  /\ limit = 1
  /\ skip = 0
  /\ seen_thumbnails = 0
  /\ new_results = TRUE
  /\ thumbnails = 0
  /\ idx = 0
  /\ clicked = [p \in Positions |-> 0]
  /\ queries = 0
  /\ error = "none"
  /\ raised = "none"
  /\ saved = FALSE
  /\ fileBefore = {}
  /\ has_recaptcha = FALSE
  /\ reject_btn = FALSE
  /\ images_link = FALSE
  /\ result = NoResult
  /\ returned = <<>>

\* _scroll_through_thumbnails holds an extracted ImageUrl, with any known set,
\* keywords, bounds and image.
InitValidate ==
  /\ panel = NoPanel
  /\ pc = "validate"
  /\ file = NoFile
  /\ \E u \in Candidates : url = <<u>>
  /\ self_urls \in { {}, {ImageUrl(t_duck, url_a)} }
  /\ keywords \in FunctionKeywordLists
  /\ min_res \in Bounds
  /\ max_res \in Bounds
  /\ fetch \in FunctionFetches
  /\ urls = {}

\* An ImageUrl, any bounds and any image.
InitCheckDimensions ==
  /\ panel = NoPanel
  /\ pc = "check_dimensions"
  /\ file = NoFile
  /\ url = << ImageUrl(t_duck, url_a) >>
  /\ self_urls = {}
  /\ keywords = <<>>
  /\ min_res \in Bounds
  /\ max_res \in Bounds
  /\ fetch \in FunctionFetches
  /\ urls = {}

\* Any set of ImageUrls, and any file to write them to.
InitWrite ==
  /\ panel = NoPanel
  /\ pc = "write"
  /\ file \in InitialFiles
  /\ url = <<>>
  /\ self_urls = {}
  /\ keywords = <<>>
  /\ min_res = NoneRes
  /\ max_res = NoneRes
  /\ fetch = NoFetch
  /\ urls \in SUBSET Candidates

\* _scroll_through_thumbnails holds an extracted ImageUrl that passes the
\* rules on title, known set and keywords, and that the accumulated set
\* holds already; any bounds and image.
InitRevalidate ==
  /\ panel = NoPanel
  /\ pc = "revalidate"
  /\ file = NoFile
  /\ \E u \in Candidates : url = <<u>>
  /\ self_urls \in { {}, {ImageUrl(t_duck, url_a)} }
  /\ keywords \in FunctionKeywordLists
  /\ validate_image_url(url[1], self_urls, keywords, NoneRes, NoneRes, NoFetch) = "True"
  /\ min_res \in Bounds
  /\ max_res \in Bounds
  /\ fetch \in FunctionFetches
  /\ urls = {url[1]}

\* The <img> elements of the side panel, and the side panels.
PanelElements ==
  { [src |-> url_a, alt |-> t_duck],
    [src |-> url_b, alt |-> NoneStr],
    [src |-> url_enc, alt |-> t_duck],
    [src |-> url_data, alt |-> t_duck],
    [src |-> NoneStr, alt |-> t_duck] }
SidePanels ==
  [1..Len(IMAGE_CLASSES) -> UNION { [1..n -> PanelElements] : n \in 0..MaxImgs }]

\* _scroll_through_thumbnails has clicked a thumbnail; the side panel shows
\* any <img> elements.
InitExtract ==
  /\ panel \in SidePanels
  /\ pc = "extract"
  /\ file = NoFile
  /\ url = <<>>
  /\ self_urls = {}
  /\ keywords = <<>>
  /\ min_res = NoneRes
  /\ max_res = NoneRes
  /\ fetch = NoFetch
  /\ urls = {}

InitFunctions ==
  /\ NoSession
  /\ NoDownload
  /\ (InitValidate \/ InitCheckDimensions \/ InitWrite \/ InitRevalidate
        \/ InitExtract)

\* tab.find(tag_name="img", class_name=..., find_all=False): the first <img>
\* of the class, or nothing.
find(elements) == IF elements = <<>> THEN NoElement ELSE elements[1]

\* _scroll_through_thumbnails, from _extract_image_url to the test of its
\* result (`continue` if it is None).
Extract ==
  /\ pc = "extract"
  /\ LET found == extract_image_url([i \in 1..Len(IMAGE_CLASSES) |-> find(panel[i])])
     IN /\ url' = found
        /\ pc' = IF found = <<>> THEN "extracted" ELSE "validate"
  /\ UNCHANGED << storeVars, paramVars, urls, seen_thumbnails, new_results,
                  thumbnails, idx, clicked, queries, endVars, stepVars,
                  pureVars, dlVars, histVars >>

\* _scroll_through_thumbnails, from the validation of the extracted ImageUrl
\* to `urls.add(url)`.
Validate ==
  /\ pc \in {"validate", "revalidate"}
  /\ LET valid == validate_image_url(url[1], self_urls, keywords, min_res,
                                     max_res, fetch)
     IN /\ result' = valid
        /\ urls' = IF valid = "True" THEN urls \cup {url[1]} ELSE urls
  /\ pc' = IF pc = "validate" THEN "validated" ELSE "revalidated"
  /\ UNCHANGED << storeVars, paramVars, seen_thumbnails, new_results,
                  thumbnails, idx, url, clicked, queries, endVars, stepVars,
                  fetch, panel, dlVars, histVars >>

\* ImageUrl.check_dimensions
CheckDimensions ==
  /\ pc = "check_dimensions"
  /\ result' = check_dimensions(fetch, min_res, max_res)
  /\ pc' = "dimensions_checked"
  /\ UNCHANGED << storeVars, paramVars, loopVars, endVars, stepVars, fetch,
                  panel, dlVars, histVars >>

\* write_urls(urls, file)
WriteUrls ==
  /\ pc = "write"
  /\ file' = [exists |-> TRUE, data |-> write_urls(urls)]
  /\ pc' = "written"
  /\ UNCHANGED << self_urls, force, paramVars, loopVars, endVars, stepVars,
                  pureVars, dlVars, histVars >>

\* read_urls(file)
ReadUrls ==
  /\ pc = "written"
  /\ result' = read_urls(file.data)
  /\ pc' = "read"
  /\ UNCHANGED << storeVars, paramVars, loopVars, endVars, stepVars, fetch,
                  panel, dlVars, histVars >>

NextFunctions ==
  \/ Extract
  \/ Validate
  \/ CheckDimensions
  \/ WriteUrls
  \/ ReadUrls

SpecFunctions == InitFunctions /\ [][NextFunctions]_vars

(* ------------------------------ download ------------------------------ *)
\* The sequences of at most MaxBatch distinct ImageUrls.
Batches ==
  { b \in UNION { [1..n -> Downloads] : n \in 0..MaxBatch } :
      \A i, j \in 1..Len(b) : b[i] = b[j] => i = j }

\* The content of a file left by an earlier download, and of one that was
\* being written when the copy failed.
OldContent == <<"old">>
PartialContent == <<"partial">>

\* download_urls is called on a batch, a save directory and a force flag.
InitDownload ==
  /\ panel = NoPanel
  /\ NoSession
  /\ pc = "downloading"
  /\ file = NoFile
  /\ url = <<>>
  /\ self_urls = {}
  /\ keywords = <<>>
  /\ min_res = NoneRes
  /\ max_res = NoneRes
  /\ fetch = NoFetch
  /\ urls = {}
  /\ dl_urls \in Batches
  /\ dl_i = 0
  /\ dl_force \in BOOLEAN
  /\ disk \in [FileNames -> {<<>>, OldContent}]
  /\ requested = {}
  /\ given_file = NoFile

\* The ImageUrl the iteration of download_urls is at.
Current == dl_urls[dl_i + 1]

\* the early return of download, whatever `force`
AlreadyThere_ignoring_force(u) == disk[filename(u)] # <<>>

\* `if file.exists() and not force: return`
AlreadyThere(u) == disk[filename(u)] # <<>> /\ ~dl_force

sessionVars == << storeVars, paramVars, loopVars, error, saved, fileBefore, stepVars, pureVars, histVars >>

\* ImageUrl.download returns at once: the file is there and force is not set.
DownloadSkips ==
  /\ pc = "downloading"
  /\ dl_i < Len(dl_urls)
  /\ AlreadyThere(Current)
  /\ dl_i' = dl_i + 1
  /\ UNCHANGED << pc, raised, dl_urls, dl_force, disk, requested, given_file,
                  sessionVars >>

\* ImageUrl.download requests the image and copies the response to the file.
DownloadWrites ==
  /\ pc = "downloading"
  /\ dl_i < Len(dl_urls)
  /\ ~AlreadyThere(Current)
  /\ requested' = requested \cup {Current.url}
  /\ disk' = [disk EXCEPT ![filename(Current)] = Current.url]
  /\ dl_i' = dl_i + 1
  /\ UNCHANGED << pc, raised, dl_urls, dl_force, given_file, sessionVars >>

\* ImageUrl.download raises (requests.get or raise_for_status, or open or
\* copyfileobj); download_urls does not catch it.
DownloadRaises ==
  /\ pc = "downloading"
  /\ dl_i < Len(dl_urls)
  /\ ~AlreadyThere(Current)
  /\ requested' = requested \cup {Current.url}
  /\ \/ raised' = "HTTPError" /\ UNCHANGED disk
     \/ /\ raised' = "OSError"
        /\ \E c \in {disk[filename(Current)], <<>>, PartialContent} :
             disk' = [disk EXCEPT ![filename(Current)] = c]
  /\ dl_i' = dl_i + 1
  /\ pc' = "download_failed"
  /\ UNCHANGED << dl_urls, dl_force, given_file, sessionVars >>

\* The iteration is over: download_urls returns.
DownloadReturns ==
  /\ pc = "downloading"
  /\ dl_i = Len(dl_urls)
  /\ pc' = "downloaded"
  /\ UNCHANGED << raised, dlVars, sessionVars >>

\* The urls files a caller can name with --urls.
GivenFiles ==
  { NoFile,
    save_urls({ImageUrl(NoneStr, url_query), ImageUrl(t_duck, url_quoted)}) }

\* The `download` command is called on a save directory, with a path to a
\* urls file and a force flag.
InitCommand ==
  /\ panel = NoPanel
  /\ NoSession
  /\ pc = "download_command"
  /\ file \in InitialFiles
  /\ url = <<>>
  /\ self_urls = {}
  /\ keywords = <<>>
  /\ min_res = NoneRes
  /\ max_res = NoneRes
  /\ fetch = NoFetch
  /\ urls = {}
  /\ dl_urls = <<>>
  /\ dl_i = 0
  /\ dl_force \in BOOLEAN
  /\ disk \in [FileNames -> {<<>>, OldContent}]
  /\ requested = {}
  /\ given_file \in GivenFiles

\* The orders in which a set can be iterated.
Orderings(S) ==
  { b \in [1..Cardinality(S) -> S] : \A i, j \in 1..Cardinality(S) : b[i] = b[j] => i = j }

\* the test of the path, always passing
IsMissing_never(f) == FALSE

\* `not urls_file.exists() or not urls_file.is_file()`
IsMissing(f) == ~f.exists

\* The `download` command: locate the urls file, read it, start download_urls.
DownloadCommand ==
  /\ pc = "download_command"
  /\ LET urls_file == IF IsMissing(given_file) THEN file ELSE given_file
     IN IF IsMissing(urls_file)
        THEN /\ raised' = "ValueError"
             /\ pc' = "download_failed"
             /\ UNCHANGED dl_urls
        ELSE /\ dl_urls' \in Orderings(read_urls(urls_file.data))
             /\ pc' = "downloading"
             /\ UNCHANGED raised
  /\ UNCHANGED << dl_i, dl_force, disk, requested, given_file, sessionVars >>

NextDownload ==
  \/ DownloadCommand
  \/ DownloadSkips
  \/ DownloadWrites
  \/ DownloadRaises
  \/ DownloadReturns

SpecDownload == (InitDownload \/ InitCommand) /\ [][NextDownload]_vars

(* ------------------- several calls on one instance -------------------- *)
\* What the clicks of one call reveal, one after the other.
Revealed ==
  UNION { [1..n -> Extractions] : n \in 0..MaxClicks }

\* the loop of _scroll_through_thumbnails, validating against the empty set
RECURSIVE gather_urls_fresh(_, _, _, _, _)
gather_urls_fresh(found, known, kws, lim, acc) ==
  IF found = <<>> \/ LimitReached(acc, lim) THEN acc
  ELSE IF Head(found) # <<>>
          /\ validate_image_url(Head(found)[1], {}, kws, NoneRes, NoneRes,
                                NoFetch) = "True"
       THEN gather_urls_fresh(Tail(found), known, kws, lim,
                              acc \cup {Head(found)[1]})
       ELSE gather_urls_fresh(Tail(found), known, kws, lim, acc)

\* _gather_urls over the images its clicks reveal, no click failing and no
\* resolution bound given: extract, validate, add, break on `limit`.
RECURSIVE gather_urls(_, _, _, _, _)
gather_urls(found, known, kws, lim, acc) ==
  IF found = <<>> \/ LimitReached(acc, lim) THEN acc
  ELSE IF Head(found) # <<>>
          /\ validate_image_url(Head(found)[1], known, kws, NoneRes, NoneRes,
                                NoFetch) = "True"
       THEN gather_urls(Tail(found), known, kws, lim,
                        acc \cup {Head(found)[1]})
       ELSE gather_urls(Tail(found), known, kws, lim, acc)

\* One whole call of get_image_urls that returns: harvest, merge, save.
GetImageUrls ==
  /\ pc = "idle"
  /\ Len(returned) < MaxCalls
  /\ \E l \in 1..MaxLimit, k \in KeywordLists, found \in Revealed :
       LET got == gather_urls(found, self_urls, k, l, {})
       IN /\ limit' = l
          /\ keywords' = k
          /\ urls' = got
          /\ self_urls' = Merge(self_urls, got)
          /\ file' = save_urls(Merge(self_urls, got))
          /\ returned' = Append(returned, got)
  /\ fileBefore' = FileSet(file)
  /\ saved' = TRUE
  /\ raised' = "none"
  /\ UNCHANGED << force, pc, skip, min_res, max_res, seen_thumbnails,
                  new_results, thumbnails, idx, url, clicked, queries, error,
                  stepVars, pureVars, dlVars >>

NextCalls ==
  \/ Construct
  \/ GetImageUrls

SpecCalls == Init /\ [][NextCalls]_vars

(* ------------------------------ the claims ---------------------------- *)
InHarvest == pc \in {"gather", "scroll", "endpass"}

\* The exceptions of a page or HTTP interaction that did not return normally.
InteractionErrors == {"ScrollError", "HTTPError", "UnidentifiedImageError"}

\* The exceptions that leave _gather_urls.
HarvestErrors == InteractionErrors \cup {"IndexError"}

\* The call ended by returning the harvested set.
Completed == pc = "done" /\ raised = "none"

\* The call ended by raising.
Failed == pc = "done" /\ raised # "none"

\* What the instance knew when get_image_urls was called.
already_known == IF force THEN {} ELSE fileBefore

NoDuplicates(data) ==
  \A i, j \in 1..Len(data) : data[i] = data[j] => i = j

\* C1: the accumulated set of _gather_urls never holds more than `limit`
\* ImageUrls, so neither does the set it returns.
C1_LimitBound == Cardinality(urls) <= limit

\* C1 witness: the loop broke on reaching `limit` with thumbnails left to click.
C1_Witness ==
  /\ pc = "endpass"
  /\ Cardinality(urls) = limit
  /\ idx + 1 < thumbnails

\* C2: the accumulated (and returned) set is disjoint from the set loaded at
\* construction, and the store file holds each (title, url) pair at most once.
C2_Dedup ==
  /\ urls \cap already_known = {}
  /\ InHarvest => urls \cap self_urls = {}
  /\ NoDuplicates(file.data)

\* C2 witness: with results accepted, the page reveals a result of the store.
C2_Witness ==
  /\ pc \in {"scroll", "endpass"}
  /\ urls # {}
  /\ url # <<>>
  /\ url[1] \in already_known
  /\ already_known # {}

\* C3, as claimed: after a completed session the file holds what it held
\* before the session, united with the harvested set.
C3_StoreUnion ==
  Completed => FileSet(file) = fileBefore \cup urls

\* C3, amended: the same, for a scraper constructed with force = false.
C3_StoreUnionNoForce ==
  (Completed /\ ~force) =>
     /\ FileSet(file) = fileBefore \cup urls
     /\ fileBefore \subseteq FileSet(file)

\* C3 witness: a completed session without force added results to a store
\* that held some.
C3_Witness ==
  /\ Completed
  /\ ~force
  /\ fileBefore # {}
  /\ urls # {}
  /\ Cardinality(FileSet(file)) > Cardinality(fileBefore)

\* C4: when a session ends with an error, the results harvest had accepted
\* are in the store file.
C4_PartialResultsPersisted ==
  Failed => urls \subseteq FileSet(file)

\* C5: once a pass observes no new thumbnails, harvest clicks nothing in that
\* pass, queries the thumbnails no more, and returns (it does not raise).
C5_NoPassAfterExhaustion ==
  [][ (InHarvest /\ ~new_results') =>
        /\ clicked' = clicked
        /\ pc' \notin {"scroll", "except"}
        /\ (~new_results => queries' = queries) ]_vars

\* C6: on a page of at most MaxThumbs thumbnails every pass that lets the loop
\* go on has raised seen_thumbnails, so there are at most MaxThumbs + 1 passes,
\* and harvest returns unless an interaction failed.
C6_Termination ==
  /\ queries <= MaxThumbs + 1
  /\ (pc = "gather" /\ new_results) => seen_thumbnails >= queries
  /\ error \in HarvestErrors => error \in InteractionErrors

\* C7: no thumbnail at a list position below `skip` is ever clicked.
C7_SkipSemantics ==
  /\ \A p \in Positions : clicked[p] > 0 => p >= skip
  /\ pc = "scroll" => idx >= skip

\* C7 witness: with a skip, a thumbnail beyond the skipped prefix was clicked
\* and an image extracted.
C7_Witness ==
  /\ skip > 0
  /\ thumbnails > skip
  /\ \E p \in Positions : clicked[p] > 0
  /\ url # <<>>

\* C8: whatever `skip` and the number of thumbnails, harvest ends by
\* returning; it raises only if an interaction with the page failed.
C8_ExhaustionNeverRaises ==
  pc = "except" => error \notin (HarvestErrors \ InteractionErrors)

\* C9: a failed read of the image's dimensions does not abort the session.
C9_UndeterminableDimensionsPass ==
  error \notin {"HTTPError", "UnidentifiedImageError"}

\* C10: _log_page never raises; the caller receives the original error, and
\* after a save the session returns its harvested set.
C10_DiagnosticsNeverMask ==
  /\ error # "LogPageError"
  /\ raised # "LogPageError"
  /\ (pc = "done" /\ error # "none") => raised = error
  /\ (pc = "done" /\ saved) => raised = "none"

\* C11: no failure of an interaction with a thumbnail (scrolling it into view,
\* clicking it) makes the session fail.
C11_InteractionFailuresNotFatal ==
  /\ error # "ScrollError"
  /\ raised # "ScrollError"

\* C12: once the challenge marker is found, the session raises RuntimeError
\* inside get_image_urls, whose handler logs the page and raises to the
\* caller; the consent button and the images link are never clicked, no
\* thumbnail is queried, and the store file is not written.
C12_ChallengeIsFatal ==
  has_recaptcha =>
     /\ pc \in {"except", "done"}
     /\ error = "RuntimeError"
     /\ pc = "done" => raised \in {"RuntimeError", "LogPageError"}
     /\ ~reject_btn
     /\ ~images_link
     /\ queries = 0
     /\ \A p \in Positions : clicked[p] = 0
     /\ ~saved
     /\ self_urls = load_urls(file, force)
     /\ FileSet(file) = fileBefore

\* C12 witness: the marker was found and the caller received the RuntimeError,
\* the store file being there from an earlier session.
C12_Witness ==
  /\ has_recaptcha
  /\ pc = "done"
  /\ raised = "RuntimeError"
  /\ file.exists

\* C13: harvest runs (thumbnails are queried, the store is saved) only after
\* the images link was found and clicked; when it is not found the session
\* raises ElementNotFound inside get_image_urls, whose handler logs the page
\* and raises to the caller.
C13_ImagesLinkMandatory ==
  /\ (InHarvest \/ pc = "logpage" \/ queries > 0 \/ saved) => images_link
  /\ error = "ElementNotFound" =>
        /\ ~images_link
        /\ pc \in {"except", "done"}
        /\ pc = "done" => raised \in {"ElementNotFound", "LogPageError"}
        /\ queries = 0
        /\ ~saved

\* C13 witness: the link was not found and the caller received ElementNotFound.
C13_Witness ==
  /\ pc = "done"
  /\ ~has_recaptcha
  /\ ~images_link
  /\ raised = "ElementNotFound"

\* C14: _refuse_cookies always goes on to the images link, whether the button
\* was found or not, with no error and with the store and the arguments as
\* they were.
C14_ConsentBestEffort ==
  [][ pc = "checked" =>
        /\ pc' = "consent"
        /\ error' = "none"
        /\ UNCHANGED << storeVars, paramVars >> ]_vars

\* C14 witness: a session that found no consent button completed with results.
C14_Witness ==
  /\ Completed
  /\ ~reject_btn
  /\ images_link
  /\ urls # {}

\* One letter is the other, the case apart.
SameLetter(c, d) == LowerChar(c) = LowerChar(d)

\* `sub` occurs in `s`, the case apart.
OccursIn(sub, s) ==
  \E i \in 0..(Len(s) - Len(sub)) :
     \A j \in 1..Len(sub) : SameLetter(sub[j], s[i + j])

\* Some keyword occurs in the title or in the url of u, the case apart.
KeywordHit(u, kws) ==
  \E i \in 1..Len(kws) :
     \/ OccursIn(kws[i], u.url)
     \/ (u.title # NoneStr /\ OccursIn(kws[i], u.title))

\* C15: an ImageUrl whose title or url holds an excluded keyword, the case
\* apart, is rejected by _validate_image_url whatever the resolution bounds
\* and the image fetched, and is not added to the accumulated set.
C15_KeywordExclusion ==
  (pc = "validated" /\ KeywordHit(url[1], keywords)) =>
     /\ result = "False"
     /\ url[1] \notin urls

\* C15 witness: an unknown ImageUrl with a title, whose image is within the
\* bounds given, was rejected for a keyword that occurs in its url only, in
\* another case.
C15_Witness ==
  /\ pc = "validated"
  /\ url[1] = ImageUrl(t_duck, url_toy)
  /\ self_urls # {}
  /\ keywords = <<kw_cat, kw_toy>>
  /\ min_res # NoneRes
  /\ max_res # NoneRes
  /\ fetch.status = "ok"
  /\ check_dimensions(fetch, min_res, max_res) = "True"
  /\ result = "False"

\* The image is narrower or lower than the bound.
Below(size, bound) == bound # NoneRes /\ (size[1] < bound[1] \/ size[2] < bound[2])

\* The image is wider or higher than the bound.
Above(size, bound) == bound # NoneRes /\ (size[1] > bound[1] \/ size[2] > bound[2])

\* C16: for an image of known size, check_dimensions returns False exactly
\* when the width or the height is below the min bound or above the max
\* bound, and True otherwise; a bound that is None rejects nothing.
C16_ResolutionBounds ==
  (pc = "dimensions_checked" /\ fetch.status = "ok" /\ fetch.size # NoneRes) =>
     /\ (Below(fetch.size, min_res) \/ Above(fetch.size, max_res)) => result = "False"
     /\ ~(Below(fetch.size, min_res) \/ Above(fetch.size, max_res)) => result = "True"
     /\ (min_res = NoneRes /\ max_res = NoneRes) => result = "True"

\* C16 witness: an image whose size is both bounds was accepted.
C16_Witness ==
  /\ pc = "dimensions_checked"
  /\ fetch.status = "ok"
  /\ fetch.size # NoneRes
  /\ min_res = fetch.size
  /\ max_res = fetch.size
  /\ result = "True"

\* C17: what read_urls reads from the file write_urls wrote is the set that
\* was written, and so is what a scraper without force loads from it.
C17_RoundTrip ==
  pc = "read" =>
     /\ result = urls
     /\ load_urls(file, FALSE) = urls

\* C17 witness: a set with an ImageUrl without title and one with a title was
\* written over an older file and read back.
C17_Witness ==
  /\ pc = "read"
  /\ ImageUrl(NoneStr, url_b) \in urls
  /\ ImageUrl(t_duck, url_a) \in urls
  /\ result = urls

\* C18: constructing a scraper leaves the store file as it is, and sets
\* self.urls to the empty set if `force` is set or there is no file, and to
\* the set of the file's records otherwise.
C18_Load ==
  [][ pc = "new" =>
        /\ pc' = "idle"
        /\ file' = file
        /\ self_urls' = IF force' \/ ~file.exists THEN {} ELSE FileSet(file) ]_vars

\* C18 witness: a scraper was constructed with force on a store that holds
\* records, and knows none of them.
C18_Witness ==
  /\ pc = "idle"
  /\ force
  /\ file.exists
  /\ FileSet(file) # {}
  /\ self_urls = {}

\* C20: a batch ends only when `download` was called on every ImageUrl of
\* it, whatever failed on the way.
C20_BatchIsolation ==
  pc \in {"downloaded", "download_failed"} => dl_i = Len(dl_urls)

\* How many clicks the call attempted.
RECURSIVE ClicksFrom(_)
ClicksFrom(p) == IF p >= MaxThumbs THEN 0 ELSE clicked[p] + ClicksFrom(p + 1)

\* Every thumbnail of the last query from position `skip` on was clicked.
AllOffered == \A p \in Positions : (skip <= p /\ p < thumbnails) => clicked[p] > 0

\* C19: on a store that was empty, a session that completes returns exactly
\* `limit` ImageUrls unless every thumbnail offered from position `skip` on
\* was tried; each extraction the validator accepts is in the accumulated
\* set, so `limit` distinct acceptable thumbnails give `limit` results; the
\* file then exists and holds exactly the returned records.
C19_ExactCount ==
  /\ (pc \in {"scroll", "endpass"} /\ url # <<>>
        /\ min_res = NoneRes /\ max_res = NoneRes
        /\ validate_image_url(url[1], self_urls, keywords, NoneRes, NoneRes,
                              NoFetch) = "True")
       => url[1] \in urls
  /\ (Completed /\ fileBefore = {}) =>
        /\ file.exists
        /\ Len(file.data) = Cardinality(urls)
        /\ FileSet(file) = urls
        /\ Cardinality(urls) = limit \/ AllOffered
        /\ (ClicksFrom(0) = Cardinality(urls) /\ thumbnails >= skip + limit)
             => Cardinality(urls) = limit

\* C19 witness: with a keyword excluded and no store, a session clicked three
\* thumbnails, one of them not acceptable, and returned and saved exactly
\* limit = 2 ImageUrls.
C19_Witness ==
  /\ Completed
  /\ fileBefore = {}
  /\ keywords # <<>>
  /\ limit = 2
  /\ ClicksFrom(0) = 3
  /\ Cardinality(urls) = 2
  /\ Len(file.data) = 2

\* C21: a call of download on an ImageUrl whose file is there, without force,
\* requests nothing and leaves the save directory as it is; with force or
\* without the file, a call that returns has requested the url and written
\* the response to the file of that name, and to no other.
C21_DownloadNoOp ==
  [][ (pc = "downloading" /\ dl_i < Len(dl_urls) /\ dl_i' = dl_i + 1) =>
        LET u == dl_urls[dl_i + 1]
            name == filename(u)
        IN IF disk[name] # <<>> /\ ~dl_force
           THEN requested' = requested /\ disk' = disk /\ pc' = pc
           ELSE pc' = "downloading" =>
                  /\ u.url \in requested'
                  /\ disk'[name] = u.url
                  /\ \A n \in FileNames \ {name} : disk'[n] = disk[n] ]_vars

\* C21 witness: a batch without force ended with one image written and one
\* older file kept, its url never requested.
C21_Witness ==
  /\ pc = "downloaded"
  /\ ~dl_force
  /\ \E i, j \in 1..Len(dl_urls) :
       /\ disk[filename(dl_urls[i])] = OldContent
       /\ dl_urls[i].url \notin requested
       /\ disk[filename(dl_urls[j])] = dl_urls[j].url

\* C22: when the urls file is neither at the path given nor under the save
\* directory, the `download` command raises ValueError; it has read no
\* ImageUrl, called download on none and requested nothing.
C22_DownloadInputError ==
  [][ (pc = "download_command" /\ ~given_file.exists /\ ~file.exists) =>
        /\ raised' = "ValueError"
        /\ pc' = "download_failed"
        /\ dl_urls' = <<>>
        /\ dl_i' = 0
        /\ requested' = {}
        /\ disk' = disk ]_vars

\* C22 witness: the command raised ValueError on a save directory that holds
\* an older image.
C22_Witness ==
  /\ pc = "download_failed"
  /\ raised = "ValueError"
  /\ ~given_file.exists
  /\ ~file.exists
  /\ \E n \in FileNames : disk[n] = OldContent

\* C23: a call goes through navigation, challenge check, consent, images
\* link, harvest and save in that order, each once; the store file is written
\* only when harvest has returned; a call that returned or raised does
\* nothing more; a call that returns has gone through every step.
C23_SessionOrdering ==
  [][ /\ pc = "idle" => pc' \in {"navigated", "done"}
      /\ pc = "navigated" => pc' \in {"checked", "except"}
      /\ pc = "checked" => pc' = "consent"
      /\ pc = "consent" => pc' \in {"gather", "except"}
      /\ InHarvest => pc' \in {"gather", "scroll", "endpass", "logpage", "except"}
      /\ pc = "logpage" => pc' \in {"done", "except"}
      /\ pc = "except" => (pc' = "done" /\ raised' # "none")
      /\ pc # "done"
      /\ (file' # file \/ saved' # saved) =>
            /\ pc = "gather"
            /\ ~LoopCondition(urls, limit, new_results)
            /\ pc' = "logpage"
            /\ ~saved
      /\ (pc' = "done" /\ raised' = "none") =>
            /\ pc = "logpage"
            /\ saved
            /\ ~has_recaptcha
            /\ images_link
            /\ queries >= 1 ]_vars

\* C23 witness: a session that clicked the consent button and the images link
\* returned after two passes of harvest and the save.
C23_Witness ==
  /\ Completed
  /\ reject_btn
  /\ images_link
  /\ saved
  /\ queries >= 2
  /\ urls # {}

\* C24: once the accumulated set holds `limit` ImageUrls, harvest clicks no
\* thumbnail, queries the thumbnails no more and adds nothing: it ends the
\* pass and returns.
C24_LimitStopsCrawl ==
  [][ (InHarvest /\ Cardinality(urls) >= limit) =>
        /\ clicked' = clicked
        /\ queries' = queries
        /\ urls' = urls
        /\ pc' \in {"gather", "logpage"} ]_vars

\* C24 witness: harvest returned after one query with `limit` ImageUrls,
\* leaving thumbnails of that query unclicked.
C24_Witness ==
  /\ pc = "logpage"
  /\ Cardinality(urls) = limit
  /\ queries = 1
  /\ idx + 1 < thumbnails
  /\ \E p \in Positions : p < thumbnails /\ p >= skip /\ clicked[p] = 0

\* C25: in every pass whose query returns fewer thumbnails than `skip`,
\* harvest clicks nothing, leaves the accumulated set as it is, sets
\* seen_thumbnails to the number of thumbnails and goes on to the next pass.
C25_SkipPrefixNotLoaded ==
  [][ (pc = "gather" /\ queries' = queries + 1 /\ skip > thumbnails') =>
        /\ clicked' = clicked
        /\ urls' = urls
        /\ seen_thumbnails' = thumbnails'
        /\ error' = error
        /\ pc' = "gather" ]_vars

\* C26: an extracted ImageUrl that the accumulated set holds already is
\* rejected by _validate_image_url.
C26_NoveltyAgainstRunningSet ==
  pc = "revalidated" => result = "False"

\* The first valid <img> of a sequence of elements, <<>> if there is none.
FirstValid(elements) ==
  IF \E k \in 1..Len(elements) : ValidImage(elements[k])
  THEN << elements[CHOOSE k \in 1..Len(elements) :
                     /\ ValidImage(elements[k])
                     /\ \A m \in 1..(k - 1) : ~ValidImage(elements[m])] >>
  ELSE <<>>

\* The elements of all the marker classes, in the order of the classes.
RECURSIVE AllElements(_, _)
AllElements(p, i) ==
  IF i > Len(IMAGE_CLASSES) THEN <<>> ELSE p[i] \o AllElements(p, i + 1)

\* C27: the extraction is the first <img>, in the order of the marker
\* classes, whose src holds "http" and not "encrypted", and nothing if no
\* class has one; a thumbnail with no extraction, or with an extraction
\* without title, adds nothing to the accumulated set.
C27_ExtractionRule ==
  (pc \in {"extracted", "validate", "validated"} /\ panel # NoPanel) =>
     /\ LET first == FirstValid(AllElements(panel, 1))
        IN url = IF first = <<>> THEN <<>>
                 ELSE << ImageUrl(first[1].alt, first[1].src) >>
     /\ pc = "extracted" => urls = {}
     /\ (pc = "validated" /\ url[1].title = NoneStr) => urls = {}

\* C28: a scraper constructed with force knows no ImageUrl until its harvest
\* has returned, whatever the store file holds, and the file it then writes
\* holds exactly the ImageUrls of that harvest.
C28_ForceDiscards ==
  (force /\ pc # "new") =>
     /\ ~saved => self_urls = {}
     /\ (~saved /\ pc # "idle") => FileSet(file) = fileBefore
     /\ saved =>
          /\ self_urls = urls
          /\ FileSet(file) = urls
          /\ Len(file.data) = Cardinality(urls)

\* C28 witness: a session with force harvested an ImageUrl the file held and
\* the file written no longer holds another one it held.
C28_Witness ==
  /\ Completed
  /\ force
  /\ urls \cap fileBefore # {}
  /\ fileBefore \ FileSet(file) # {}

\* C29: no list position is clicked more than once in one harvest.
C29_AtMostOneClick ==
  \A p \in Positions : clicked[p] <= 1

\* C29 witness: over three passes on a growing list, the thumbnails at
\* positions 0, 1 and 2 were each clicked once.
C29_Witness ==
  /\ queries >= 3
  /\ seen_thumbnails = 3
  /\ \A p \in 0..2 : clicked[p] = 1
  /\ skip = 0

\* C30: when harvest has returned fewer than `limit` ImageUrls, every
\* thumbnail of the last query at a position from `skip` on was clicked
\* exactly once.
C30_CompleteOnExhaustion ==
  (saved /\ Cardinality(urls) < limit) =>
     \A p \in Positions : (skip <= p /\ p < thumbnails) => clicked[p] = 1

\* C30 witness: with a skip, harvest returned short of the limit after
\* clicking, over more than one pass, the two thumbnails beyond the skip.
C30_Witness ==
  /\ pc = "logpage"
  /\ Cardinality(urls) < limit
  /\ skip = 1
  /\ thumbnails = 3
  /\ clicked[1] = 1
  /\ clicked[2] = 1
  /\ queries >= 3

\* C31: in every pass whose query returns new thumbnails, harvest scrolls a
\* thumbnail into view (the first of the slice, or the last of a skipped
\* prefix) before anything else; no such pass ends without an interaction.
C31_ExhaustionAfterLoadingMore ==
  [][ (pc = "gather" /\ queries' = queries + 1 /\ new_results') =>
        pc' \in {"scroll", "gather", "except"} ]_vars

\* The errors of a session the store is to survive: challenge, images link
\* not found, an error during harvest.
SessionErrors == {"RuntimeError", "ElementNotFound"} \cup HarvestErrors

\* C32: the store file is written once, by the save that follows harvest; a
\* session that ends on a challenge, a missing images link or an error
\* during harvest has written nothing, and its file and self.urls are what
\* they were when the session started.
C32_FailedSessionLeavesStore ==
  /\ error \in SessionErrors =>
        /\ ~saved
        /\ file \in InitialFiles
        /\ FileSet(file) = fileBefore
        /\ self_urls = load_urls(file, force)
  /\ saved => file = save_urls(self_urls)
  /\ (~saved /\ pc \notin {"new", "idle"}) => FileSet(file) = fileBefore

\* C32 witness: a session on an existing store failed on a dimension fetch
\* after harvest had accepted an ImageUrl.
C32_Witness ==
  /\ Failed
  /\ error = "HTTPError"
  /\ urls # {}
  /\ file.exists
  /\ ~force
  /\ self_urls = fileBefore

\* What the extraction and the validator let into the accumulated set.
Accepted(u, kws, known) ==
  /\ u.title # NoneStr
  /\ contains(HTTP, u.url)
  /\ ~contains(ENCRYPTED, u.url)
  /\ ~KeywordHit(u, kws)
  /\ u \notin known

\* C34: after every step, every ImageUrl of the accumulated set has a title,
\* a url that holds "http" and not "encrypted", no excluded keyword in its
\* title or url (the case apart), and was not in the set loaded at
\* construction; no step of harvest takes an ImageUrl out of the set.
C34_AccumulatedSet ==
  [][ /\ \A u \in urls' :
           Accepted(u, keywords', IF force' THEN {} ELSE fileBefore')
      /\ InHarvest => urls \subseteq urls' ]_vars

\* C34 witness: with an ImageUrl accepted, the click revealed an image whose
\* url holds an excluded keyword in another case, and it was left out.
C34_Witness ==
  /\ pc \in {"scroll", "endpass"}
  /\ urls # {}
  /\ url # <<>>
  /\ url[1].title # NoneStr
  /\ keywords # <<>>
  /\ ~OccursIn(keywords[1], url[1].title)
  /\ OccursIn(keywords[1], url[1].url)
  /\ url[1] \notin urls

\* A step that is one call of a sequence of calls.
CallStep == pc = "idle" /\ Len(returned') = Len(returned) + 1

\* C33, as claimed: the set a call returns is disjoint from the sets the
\* earlier calls returned; after the call self.urls is the content of the
\* file and is self.urls before the call united with the returned set; the
\* file has as many records more as the call returned.
C33_Resumable ==
  [][ CallStep =>
        /\ \A i \in 1..Len(returned) : returned[i] \cap urls' = {}
        /\ self_urls' = FileSet(file')
        /\ self_urls' = self_urls \cup urls'
        /\ Len(file'.data) = Len(file.data) + Cardinality(urls') ]_vars

\* C33, amended: the same, the record count growing by the number returned
\* in every call but the first of an instance constructed with force.
C33_ResumableAfterLoad ==
  [][ CallStep =>
        /\ \A i \in 1..Len(returned) : returned[i] \cap urls' = {}
        /\ self_urls' = FileSet(file')
        /\ self_urls' = self_urls \cup urls'
        /\ ~(force /\ returned = <<>>) =>
              Len(file'.data) = Len(file.data) + Cardinality(urls') ]_vars

\* C33 witness: two calls of a forced instance on an existing store each
\* returned ImageUrls, the second with room left under its limit.
C33_Witness ==
  /\ pc = "idle"
  /\ force
  /\ Len(returned) = 2
  /\ returned[1] # {}
  /\ returned[2] # {}
  /\ Cardinality(returned[2]) < limit
  /\ self_urls = returned[1] \cup returned[2]
  /\ FileSet(file) = self_urls
====
